---- MODULE Spec2Model ----
(***************************************************************************)
(* Rate acquisition, caching and scheduling pipeline of valutatrade_hub:   *)
(* RatesUpdater.run_update, HistoryStorage / RatesStorage (temp file then  *)
(* rename), DatabaseManager.get_rate, RatesCommands.get_rate and          *)
(* show_rates, and RatesScheduler (worker loop, start, stop).              *)
(*                                                                         *)
(* Modelling conventions                                                   *)
(*  - a pair key f"{FROM}_{TO}" is the tuple <<FROM, TO>>;                 *)
(*  - an instant is a whole number of seconds (the code truncates every    *)
(*    timestamp it stores to the second);                                  *)
(*  - a Python value is a tagged record: None, a number (a fraction        *)
(*    num/den, so that 1 / rate is exact), a dict, or a raised exception;  *)
(*  - a file is absent, or holds a document of which n of DumpChunks       *)
(*    pieces have been written; it parses only when n = DumpChunks;        *)
(*  - a document is a sequence: the array of exchange_rates.json is the    *)
(*    sequence of its records, the object of rates.json a sequence of one; *)
(*  - Quote.meta (latency, status code, etag) is not modelled;             *)
(*  - a rate is a whole number (a float in the code); codes are upper      *)
(*    case.                                                                *)
(***************************************************************************)
EXTENDS Integers, Sequences, FiniteSets, TLC

VARIABLES
    now,          \* the wall clock, in seconds
    ticks,        \* how many times the clock has advanced (bounded)
    refreshes,    \* how many run_update calls have started (bounded)
    api_key,      \* ParserConfig.EXCHANGE_RATE_API_KEY is set
    ratesFile,    \* data/rates.json
    historyFile,  \* data/exchange_rates.json
    tmp,          \* per thread: the NamedTemporaryFile of its _atomic_write
    pc,           \* per thread: position in the code
    ru,           \* per thread: locals of run_update
    gr,           \* per thread: locals of RatesCommands.get_rate
    res,          \* per thread: outcome of its last finished call
    logged,       \* records whose HistoryStorage.append has returned
    stop_event,   \* RatesScheduler._stop_event
    thread,       \* RatesScheduler._thread: the worker last started, or NoThread
    balance       \* Wallet._balance of one wallet

vars == <<now, ticks, refreshes, api_key, ratesFile, historyFile, tmp, pc, ru,
          gr, res, logged, stop_event, thread, balance>>

(***************************************************************************)
(* Bounds of the model                                                     *)
(***************************************************************************)
MaxTicks == 1
MaxRefreshes == 2
MaxReadRefreshes == 1
DumpChunks == 2

(***************************************************************************)
(* Program constants                                                       *)
(***************************************************************************)
RATES_TTL_SECONDS == 300

BASE_CURRENCY == "USD"

FIAT_CURRENCIES == <<"EUR", "RUB", "USD", "IRR", "CNY", "GBP", "KZT">>

CRYPTO_ID_MAP == <<"BTC", "ETH", "SOL">>

CURRENCY_REGISTRY == {"USD", "EUR", "RUB", "IRR", "BTC", "ETH", "SOL"}

Clients == <<"coingecko", "exchangerate">>

\* the controlling thread and two slots for RatesSchedulerThread objects
Threads == {"main", "sched", "sched2"}

Workers == {"sched", "sched2"}

NoThread == "none"

NoSource == ""
NoBase == ""

Range(s) == {s[i] : i \in 1..Len(s)}

(***************************************************************************)
(* Python values                                                           *)
(***************************************************************************)
PyNone == [t |-> "None"]

PyNum(n, d) == [t |-> "num", num |-> n, den |-> d]

PyDict(e) == [t |-> "dict", v |-> e]

PyRaise(e) == [t |-> "exc", exc |-> e]

\* the / operator with an int on the left
PyDiv(a, b) ==
    IF b.t = "num"
    THEN IF b.num = 0 THEN PyRaise("ZeroDivisionError")
         ELSE PyNum(a * b.den, b.num)
    ELSE PyRaise("TypeError")

\* the > operator against the int 0
PyGtZero(b) ==
    IF b.t = "num" THEN [t |-> "bool", v |-> (b.num * b.den > 0)]
    ELSE PyRaise("TypeError")

\* an int or a float. A finite value v stands for itself; nan, inf and
\* -inf are the other values a float can hold.
PyInt(v) == [t |-> "int", c |-> "fin", v |-> v]

PyFloat(v) == [t |-> "float", c |-> "fin", v |-> v]

NaN == [t |-> "float", c |-> "nan", v |-> 0]

Inf == [t |-> "float", c |-> "inf", v |-> 0]

NegInf == [t |-> "float", c |-> "ninf", v |-> 0]

\* isinstance(x, (int, float))
IsNumber(x) == x.t \in {"int", "float"}

\* float(x) of a number
ToFloat(x) == [x EXCEPT !.t = "float"]

\* a > b: every comparison with nan is false
NumGt(a, b) ==
    CASE a.c = "nan" \/ b.c = "nan" -> FALSE
      [] a.c = "inf" -> b.c # "inf"
      [] a.c = "ninf" -> FALSE
      [] b.c = "inf" -> FALSE
      [] b.c = "ninf" -> TRUE
      [] OTHER -> a.v > b.v

\* a < b
NumLt(a, b) == NumGt(b, a)

\* a <= b
NumLe(a, b) ==
    /\ a.c # "nan" /\ b.c # "nan"
    /\ ~NumGt(a, b)

\* a >= b
NumGe(a, b) == NumLe(b, a)

\* -x
NumNeg(x) ==
    CASE x.c = "inf" -> NegInf
      [] x.c = "ninf" -> Inf
      [] x.c = "nan" -> NaN
      [] OTHER -> [x EXCEPT !.v = 0 - x.v]

\* a + b of two floats
NumAdd(a, b) ==
    CASE a.c = "nan" \/ b.c = "nan" -> NaN
      [] a.c = "fin" /\ b.c = "fin" -> PyFloat(a.v + b.v)
      [] a.c = "fin" -> b
      [] b.c = "fin" -> a
      [] a.c = b.c -> a
      [] OTHER -> NaN

\* a - b of two floats
NumSub(a, b) == NumAdd(a, NumNeg(b))

\* positional parameters each exception class requires
RequiredArgs(cls) ==
    CASE cls = "ApiRequestError" -> 1
      [] cls = "CurrencyNotFoundError" -> 1
      [] cls = "RateUnavailableError" -> 2
      [] cls = "InsufficientFundsError" -> 3
      [] OTHER -> 0

\* cls(*args): the exception that reaches the caller
Instantiate(cls, args) ==
    IF Len(args) = RequiredArgs(cls)
    THEN [status |-> cls, exc |-> args]
    ELSE [status |-> "TypeError", exc |-> <<>>]

\* the parameters each exception class takes
Params(cls) ==
    CASE cls = "ApiRequestError" -> <<"reason">>
      [] cls = "CurrencyNotFoundError" -> <<"code">>
      [] cls = "RateUnavailableError" -> <<"currency_from", "currency_to">>
      [] cls = "InsufficientFundsError" -> <<"available", "code", "required">>
      [] OTHER -> <<>>

\* cls(**kw): an unexpected or a missing keyword is a TypeError
InstantiateKw(cls, kw) ==
    IF DOMAIN kw = Range(Params(cls))
    THEN [status |-> cls,
          exc |-> [i \in 1..Len(Params(cls)) |-> kw[Params(cls)[i]]]]
    ELSE [status |-> "TypeError", exc |-> <<>>]

(***************************************************************************)
(* Files and documents                                                     *)
(***************************************************************************)
EmptyMap == [k \in {} |-> 0]

Upsert(f, g) ==
    [k \in DOMAIN f \cup DOMAIN g |-> IF k \in DOMAIN g THEN g[k] ELSE f[k]]

Absent == [kind |-> "absent"]

File(doc, n) == [kind |-> "file", doc |-> doc, n |-> n]

Complete(f) == f.kind = "absent" \/ f.n = DumpChunks

NoTmp == [target |-> "none", doc |-> <<>>, n |-> 0]

Target(name) == IF name = "rates" THEN ratesFile ELSE historyFile

(***************************************************************************)
(* Providers (api_clients.py).  A reply is what the upstream endpoint      *)
(* answers to the single request of one fetch: a transport error, a body  *)
(* that is not JSON, or a body mapping some codes to a rate.               *)
(***************************************************************************)
ErrorReply == [status |-> "error", data |-> EmptyMap]

OkReply(data) == [status |-> "ok", data |-> data]

\* a 200 response whose non-empty body is not JSON
GarbledReply == [status |-> "garbled", data |-> EmptyMap]

\* rates are whole numbers; the first table is 59337.21 / 3720.00 / 150.00 in
\* hundredths, the second has two equal rates, the third a zero and a
\* negative rate, the fourth no rate for SOL, the last an empty body
CoinGeckoReplies ==
    { ErrorReply,
      OkReply([c \in Range(CRYPTO_ID_MAP) |->
                  IF c = "BTC" THEN 5933721
                  ELSE IF c = "ETH" THEN 372000 ELSE 15000]),
      OkReply([c \in Range(CRYPTO_ID_MAP) |-> IF c = "SOL" THEN 1 ELSE 2]),
      OkReply([c \in Range(CRYPTO_ID_MAP) |->
                  IF c = "BTC" THEN 0 ELSE IF c = "ETH" THEN -1 ELSE 1]),
      OkReply([c \in {"BTC", "ETH"} |-> 2]),
      OkReply(EmptyMap),
      GarbledReply }

\* the fiat endpoint quotes the base itself at 1; the further tables carry a
\* zero rate and no rate for RUB
ExchangeRateReplies(base) ==
    { ErrorReply,
      OkReply([c \in Range(FIAT_CURRENCIES) |-> IF c = base THEN 1 ELSE 2]),
      OkReply([c \in Range(FIAT_CURRENCIES) |->
                  IF c = base THEN 1 ELSE IF c = "RUB" THEN 0 ELSE 2]),
      OkReply([c \in Range(FIAT_CURRENCIES) \ {"RUB"} |->
                  IF c = base THEN 1 ELSE 2]),
      OkReply(EmptyMap),
      GarbledReply }

Replies(name, base) ==
    IF name = "coingecko" THEN CoinGeckoReplies ELSE ExchangeRateReplies(base)

FetchFailed(reason) ==
    [ok |-> FALSE, exc |-> "ApiRequestError", reason |-> reason,
     rates |-> EmptyMap]

\* response.json() is called outside the try block of either client
FetchRaised(exc) ==
    [ok |-> FALSE, exc |-> exc, reason |-> "", rates |-> EmptyMap]

FetchOk(rates) == [ok |-> TRUE, exc |-> "", reason |-> "", rates |-> rates]

Quote(code, base, rate, at, source) ==
    [from_currency |-> code, to_currency |-> base, rate |-> rate,
     timestamp |-> at, source |-> source]

CoinGeckoFetch(reply, base, at) ==
    IF reply.status = "error" THEN FetchFailed("CoinGecko: request")
    ELSE IF reply.status = "garbled" THEN FetchRaised("JSONDecodeError")
    ELSE IF DOMAIN reply.data = {} THEN FetchFailed("CoinGecko: empty page")
    ELSE IF \E c \in Range(CRYPTO_ID_MAP) : c \notin DOMAIN reply.data
    THEN FetchFailed("CoinGecko: no rate")
    ELSE FetchOk([p \in {<<c, base>> : c \in Range(CRYPTO_ID_MAP)} |->
                    Quote(p[1], base, reply.data[p[1]], at, "CoinGecko")])

\* a variant without the test of the key, which sends the request anyway
ExchangeRateFetchNoKeyTest(reply, base, at) ==
    IF reply.status = "error"
    THEN FetchFailed("ExchangeRate-API: request")
    ELSE IF reply.status = "garbled" THEN FetchRaised("JSONDecodeError")
    ELSE IF DOMAIN reply.data = {} THEN FetchFailed("ExchangeRate-API: empty")
    ELSE IF \E c \in Range(FIAT_CURRENCIES) :
                c \notin DOMAIN reply.data \/ reply.data[c] = 0
    THEN FetchFailed("ExchangeRate-API: no rate")
    ELSE FetchOk([p \in {<<c, base>> : c \in Range(FIAT_CURRENCIES)} |->
                    Quote(p[1], base, reply.data[p[1]], at, "ExchangeRate-API")])

ExchangeRateFetch(reply, base, at) ==
    IF ~api_key THEN FetchFailed("ExchangeRate-API: no API key")
    ELSE IF reply.status = "error"
    THEN FetchFailed("ExchangeRate-API: request")
    ELSE IF reply.status = "garbled" THEN FetchRaised("JSONDecodeError")
    ELSE IF DOMAIN reply.data = {} THEN FetchFailed("ExchangeRate-API: empty")
    ELSE IF \E c \in Range(FIAT_CURRENCIES) :
                c \notin DOMAIN reply.data \/ reply.data[c] = 0
    THEN FetchFailed("ExchangeRate-API: no rate")
    ELSE FetchOk([p \in {<<c, base>> : c \in Range(FIAT_CURRENCIES)} |->
                    Quote(p[1], base, reply.data[p[1]], at, "ExchangeRate-API")])

fetch_rates(name, reply, base, at) ==
    IF name = "coingecko" THEN CoinGeckoFetch(reply, base, at)
    ELSE ExchangeRateFetch(reply, base, at)

\* the outbound requests one fetch_rates call issues: requests.get is called
\* once, and the fiat client raises before it when no key is configured
Requests(name) ==
    IF name = "exchangerate" /\ ~api_key THEN <<>> ELSE <<name>>

(***************************************************************************)
(* DatabaseManager (infra/database.py): reading the snapshot               *)
(***************************************************************************)
EmptyDict == [rates |-> EmptyMap, last_refresh |-> -1, empty |-> TRUE]

\* _load_json + load_rates: a missing or unparseable file reads as {}
load_rates(f) ==
    IF f.kind = "file" /\ f.n = DumpChunks
    THEN [rates |-> f.doc[1].rates, last_refresh |-> f.doc[1].last_refresh,
          empty |-> FALSE]
    ELSE EmptyDict

\* DatabaseManager.get_rate: the Python value it returns or the exception
\* it raises.  rates.get(key) is the stored entry, a dict.
DbGetRate(f, from, to) ==
    LET rates == load_rates(f).rates
    IN  IF <<from, to>> \in DOMAIN rates THEN PyDict(rates[<<from, to>>])
        ELSE IF <<to, from>> \in DOMAIN rates
        THEN PyDiv(1, PyDict(rates[<<to, from>>]))
        ELSE PyNone

\* get_currency: the code is in the registry
Registered(code) == code \in CURRENCY_REGISTRY


(***************************************************************************)
(* Thread-local state                                                      *)
(***************************************************************************)
NoRu ==
    [source |-> "", base |-> "", todo |-> <<>>, history_records |-> <<>>,
     cache_snapshot |-> EmptyMap, ret |-> "", at |-> 0,
     pre_rates |-> Absent, pre_hist |-> Absent,
     attempted |-> {}, failed |-> {}, requests |-> <<>>, fetch_exc |-> ""]

NoGr ==
    [from |-> "", to |-> "", at |-> 0, updated_at |-> -1,
     pre_rates |-> Absent, pre_hist |-> Absent, refreshes |-> 0,
     loaded |-> FALSE, rbase |-> ""]

NoRes ==
    [op |-> "none", a |-> "", b |-> "", status |-> "", exc |-> <<>>,
     value |-> PyNone, at |-> 0, pre_rates |-> Absent, pre_hist |-> Absent,
     fetched |-> EmptyMap, records |-> <<>>, attempted |-> {}, failed |-> {},
     refreshes |-> 0, loaded |-> FALSE, top |-> 0, requests |-> <<>>,
     rbase |-> "", fetch_exc |-> ""]

Ok == [status |-> "ok", exc |-> <<>>]

\* what a finished run_update leaves for its caller
RuResult(f, outcome) ==
    [op |-> "run_update", a |-> f.source, b |-> f.base,
     status |-> outcome.status, exc |-> outcome.exc, value |-> PyNone,
     at |-> f.at, pre_rates |-> f.pre_rates, pre_hist |-> f.pre_hist,
     fetched |-> f.cache_snapshot, records |-> f.history_records,
     attempted |-> f.attempted, failed |-> f.failed, refreshes |-> 1,
     loaded |-> FALSE, top |-> 0, requests |-> f.requests, rbase |-> "",
     fetch_exc |-> f.fetch_exc]

\* what a finished RatesCommands.get_rate leaves for its caller
GrResult(g, outcome, value) ==
    [op |-> "get_rate", a |-> g.from, b |-> g.to,
     status |-> outcome.status, exc |-> outcome.exc, value |-> value,
     at |-> g.at, pre_rates |-> g.pre_rates, pre_hist |-> g.pre_hist,
     fetched |-> EmptyMap, records |-> <<>>, attempted |-> {}, failed |-> {},
     refreshes |-> g.refreshes, loaded |-> g.loaded, top |-> 0,
     requests |-> <<>>, rbase |-> g.rbase, fetch_exc |-> ""]

\* a variant in which an exception of the tick's run_update leaves the worker
\* loop
DeliverUncaught(t, ret, r) ==
    /\ ru' = [ru EXCEPT ![t] = NoRu]
    /\ res' = [res EXCEPT ![t] = r]
    /\ gr' = gr
    /\ pc' = [pc EXCEPT ![t] =
          IF ret # "s_tick" THEN "idle"
          ELSE IF r.status = "ok" THEN "s_wait" ELSE "s_exit"]

\* run_update returns or raises: control goes back to the frame that called
\* it (the CLI command, the scheduler loop, or get_rate's stale branch)
Deliver(t, ret, r) ==
    /\ ru' = [ru EXCEPT ![t] = NoRu]
    /\ CASE ret = "s_tick" ->
              /\ pc' = [pc EXCEPT ![t] = "s_wait"]
              /\ res' = [res EXCEPT ![t] = r]
              /\ gr' = gr
         [] ret = "gr_reload" ->
              IF r.status = "ok"
              THEN /\ pc' = [pc EXCEPT ![t] = "gr_reload"]
                   /\ res' = res
                   /\ gr' = [gr EXCEPT ![t].refreshes = @ + 1,
                                       ![t].rbase = r.b]
              ELSE /\ pc' = [pc EXCEPT ![t] = "idle"]
                   /\ res' = [res EXCEPT ![t] =
                        GrResult([gr[t] EXCEPT !.refreshes = @ + 1,
                                                   !.rbase = r.b],
                                 [status |-> r.status, exc |-> r.exc], PyNone)]
                   /\ gr' = [gr EXCEPT ![t] = NoGr]
         [] OTHER ->
              /\ pc' = [pc EXCEPT ![t] = "idle"]
              /\ res' = [res EXCEPT ![t] = r]
              /\ gr' = gr

(***************************************************************************)
(* RatesUpdater.run_update (parser_service/updater.py)                     *)
(***************************************************************************)
\* a variant that falls back to every client when no client has the name
SelectedOrAll(source) ==
    IF \E i \in 1..Len(Clients) : Clients[i] = source
    THEN SelectSeq(Clients, LAMBDA name : name = source)
    ELSE Clients

\* a variant that ignores the source argument
SelectedAll(source) == Clients

\* lines 39-41: the clients the loop does not skip, in dict order
Selected(source) ==
    SelectSeq(Clients, LAMBDA name : source = NoSource \/ name = source)

\* lines 23-41: validate base, choose the providers, start the cycle
EnterRunUpdate(t, source, base, ret) ==
    LET frame == [NoRu EXCEPT
                    !.source = source,
                    !.base = IF base = NoBase THEN BASE_CURRENCY ELSE base,
                    !.todo = Selected(source),
                    !.ret = ret, !.at = now,
                    !.pre_rates = ratesFile, !.pre_hist = historyFile]
    IN  /\ refreshes' = refreshes + 1
        /\ IF base # NoBase /\ ~Registered(base)
           THEN Deliver(t, ret,
                    RuResult(frame, Instantiate("CurrencyNotFoundError", <<base>>)))
           ELSE IF frame.todo = <<>>
           THEN Deliver(t, ret, RuResult(frame, Ok))
           ELSE /\ ru' = [ru EXCEPT ![t] = frame]
                /\ pc' = [pc EXCEPT ![t] = "ru_fetch"]
                /\ res' = IF ret = "gr_reload" THEN res
                          ELSE [res EXCEPT ![t] = NoRes]
                /\ gr' = gr

HistoryRecord(pair, q) ==
    [id |-> <<pair, q.timestamp>>, from_currency |-> q.from_currency,
     to_currency |-> q.to_currency, rate |-> q.rate,
     timestamp |-> q.timestamp, source |-> q.source]

CacheEntry(q) ==
    [rate |-> q.rate, updated_at |-> q.timestamp, source |-> q.source]

Universe(name) == IF name = "coingecko" THEN CRYPTO_ID_MAP ELSE FIAT_CURRENCIES

\* lines 46-53 over one provider's data, in the order the provider built it
RecordsOf(name, base, rates) ==
    [i \in 1..Len(Universe(name)) |->
        HistoryRecord(<<Universe(name)[i], base>>, rates[<<Universe(name)[i], base>>])]

\* a variant that asks a provider a second time after its first failure
RuFetchRetrying(t) ==
    /\ pc[t] = "ru_fetch"
    /\ \E reply \in Replies(Head(ru[t].todo), ru[t].base) :
         LET name == Head(ru[t].todo)
             got == fetch_rates(name, reply, ru[t].base, now)
             tried == [ru[t] EXCEPT !.attempted = @ \cup {name},
                                     !.requests = @ \o Requests(name),
                                     !.todo = Tail(@)]
         IN  IF ~got.ok /\ name \notin ru[t].attempted
             THEN /\ ru' = [ru EXCEPT ![t] = [tried EXCEPT !.todo = ru[t].todo]]
                  /\ UNCHANGED <<pc, res, gr>>
             ELSE IF ~got.ok
             THEN Deliver(t, ru[t].ret,
                      RuResult([tried EXCEPT !.failed = @ \cup {name},
                                             !.fetch_exc = got.exc],
                               Instantiate("ApiRequestError", <<>>)))
             ELSE /\ ru' = [ru EXCEPT ![t] =
                        [tried EXCEPT
                           !.history_records =
                               @ \o RecordsOf(name, ru[t].base, got.rates),
                           !.cache_snapshot =
                               Upsert(@, [p \in DOMAIN got.rates |->
                                              CacheEntry(got.rates[p])])]]
                  /\ pc' = [pc EXCEPT ![t] =
                        IF tried.todo = <<>> THEN "ha_read" ELSE "ru_fetch"]
                  /\ UNCHANGED <<res, gr>>
    /\ UNCHANGED <<now, ticks, refreshes, api_key, ratesFile, historyFile, tmp,
                   logged, stop_event, thread,
                   balance>>

\* lines 39-56: one iteration of the loop over the selected clients.  A
\* failed fetch is re-raised at once as `raise ApiRequestError from e`.
RuFetch(t) ==
    /\ pc[t] = "ru_fetch"
    /\ \E reply \in Replies(Head(ru[t].todo), ru[t].base) :
         LET name == Head(ru[t].todo)
             got == fetch_rates(name, reply, ru[t].base, now)
             tried == [ru[t] EXCEPT !.attempted = @ \cup {name},
                                     !.requests = @ \o Requests(name),
                                     !.todo = Tail(@)]
         IN  IF ~got.ok
             THEN Deliver(t, ru[t].ret,
                      RuResult([tried EXCEPT !.failed = @ \cup {name},
                                             !.fetch_exc = got.exc],
                               Instantiate("ApiRequestError", <<>>)))
             ELSE /\ ru' = [ru EXCEPT ![t] =
                        [tried EXCEPT
                           !.history_records =
                               @ \o RecordsOf(name, ru[t].base, got.rates),
                           !.cache_snapshot =
                               Upsert(@, [p \in DOMAIN got.rates |->
                                              CacheEntry(got.rates[p])])]]
                  /\ pc' = [pc EXCEPT ![t] =
                        IF tried.todo = <<>> THEN "ha_read" ELSE "ru_fetch"]
                  /\ UNCHANGED <<res, gr>>
    /\ UNCHANGED <<now, ticks, refreshes, api_key, ratesFile, historyFile, tmp,
                   logged, stop_event, thread,
                   balance>>

(***************************************************************************)
(* HistoryStorage / RatesStorage (parser_service/storage.py)               *)
(***************************************************************************)
\* a variant of append that writes the new records alone
HaReadFresh(t) ==
    /\ pc[t] = "ha_read"
    /\ tmp' = [tmp EXCEPT ![t] =
          [target |-> "history", doc |-> ru[t].history_records, n |-> 0]]
    /\ pc' = [pc EXCEPT ![t] = "w_dump"]
    /\ UNCHANGED <<now, ticks, refreshes, api_key, ratesFile, historyFile, ru,
                   gr, res, logged, stop_event, thread,
                   balance>>

\* HistoryStorage.append, lines 19-25: read the existing array, extend it,
\* and open the temporary file of _atomic_write
HaRead(t) ==
    /\ pc[t] = "ha_read"
    /\ IF /\ historyFile.kind = "file"
          /\ historyFile.n > 0
          /\ historyFile.n < DumpChunks
       THEN /\ Deliver(t, ru[t].ret,
                  RuResult(ru[t], [status |-> "JSONDecodeError", exc |-> <<>>]))
            /\ tmp' = tmp
       ELSE LET existing == IF historyFile.kind = "file" /\ historyFile.n > 0
                            THEN historyFile.doc ELSE <<>>
            IN  /\ tmp' = [tmp EXCEPT ![t] =
                      [target |-> "history",
                       doc |-> existing \o ru[t].history_records,
                       n |-> 0]]
                /\ pc' = [pc EXCEPT ![t] = "w_dump"]
                /\ UNCHANGED <<ru, res, gr>>
    /\ UNCHANGED <<now, ticks, refreshes, api_key, ratesFile, historyFile,
                   logged, stop_event, thread,
                   balance>>

\* RatesStorage.save_rates, lines 46-55 (updater.py 59-62): build the
\* snapshot from this cycle's pairs and open the temporary file
RuSave(t) ==
    /\ pc[t] = "ru_save"
    /\ tmp' = [tmp EXCEPT ![t] =
          [target |-> "rates",
           doc |-> <<[rates |-> ru[t].cache_snapshot, last_refresh |-> now]>>,
           n |-> 0]]
    /\ pc' = [pc EXCEPT ![t] = "w_dump"]
    /\ UNCHANGED <<now, ticks, refreshes, api_key, ratesFile, historyFile, ru,
                   gr, res, logged, stop_event, thread,
                   balance>>

\* a variant that writes the document into the target itself
DumpChunkInPlace(t) ==
    /\ pc[t] = "w_dump"
    /\ tmp[t].n < DumpChunks
    /\ tmp' = [tmp EXCEPT ![t].n = @ + 1]
    /\ IF tmp[t].target = "rates"
       THEN /\ ratesFile' = File(tmp[t].doc, tmp[t].n + 1)
            /\ historyFile' = historyFile
       ELSE /\ historyFile' = File(tmp[t].doc, tmp[t].n + 1)
            /\ ratesFile' = ratesFile
    /\ pc' = [pc EXCEPT ![t] =
          IF tmp[t].n + 1 = DumpChunks THEN "w_replace" ELSE "w_dump"]
    /\ UNCHANGED <<now, ticks, refreshes, api_key, ru, gr, res, logged,
                   stop_event, thread,
                   balance>>

\* _atomic_write: json.dump writes the next piece into the temporary file;
\* leaving the with block closes it
DumpChunk(t) ==
    /\ pc[t] = "w_dump"
    /\ tmp[t].n < DumpChunks
    /\ tmp' = [tmp EXCEPT ![t].n = @ + 1]
    /\ pc' = [pc EXCEPT ![t] =
          IF tmp[t].n + 1 = DumpChunks THEN "w_replace" ELSE "w_dump"]
    /\ UNCHANGED <<now, ticks, refreshes, api_key, ratesFile, historyFile, ru,
                   gr, res, logged, stop_event, thread,
                   balance>>

\* a variant in which run_update catches the failed write and goes on to
\* report success
WriteFailsSwallowed(t) ==
    /\ pc[t] = "w_dump"
    /\ tmp' = [tmp EXCEPT ![t] = NoTmp]
    /\ Deliver(t, ru[t].ret, RuResult(ru[t], Ok))
    /\ UNCHANGED <<now, ticks, refreshes, api_key, ratesFile, historyFile,
                   logged, stop_event, thread,
                   balance>>

\* a variant in which a failed write of the history is passed over and the
\* cycle goes on to save the cache
WriteFailsHistorySkipped(t) ==
    /\ pc[t] = "w_dump"
    /\ tmp' = [tmp EXCEPT ![t] = NoTmp]
    /\ IF tmp[t].target = "history"
       THEN /\ pc' = [pc EXCEPT ![t] = "ru_save"]
            /\ UNCHANGED <<ru, gr, res>>
       ELSE Deliver(t, ru[t].ret,
               RuResult(ru[t], [status |-> "OSError", exc |-> <<>>]))
    /\ UNCHANGED <<now, ticks, refreshes, api_key, ratesFile, historyFile,
                   logged, stop_event, thread,
                   balance>>

\* _atomic_write: the write into the temporary file raises OSError (disk
\* full, directory gone); nothing catches it before run_update's caller.
\* The temporary file stays behind and is not followed further.
WriteFails(t) ==
    /\ pc[t] = "w_dump"
    /\ tmp' = [tmp EXCEPT ![t] = NoTmp]
    /\ Deliver(t, ru[t].ret,
          RuResult(ru[t], [status |-> "OSError", exc |-> <<>>]))
    /\ UNCHANGED <<now, ticks, refreshes, api_key, ratesFile, historyFile,
                   logged, stop_event, thread,
                   balance>>

\* _atomic_write: tmp_path.replace(self.file), then back in run_update
\* (after the history: line 59; after the cache: lines 64-66, return)
Replace(t) ==
    /\ pc[t] = "w_replace"
    /\ tmp' = [tmp EXCEPT ![t] = NoTmp]
    /\ IF tmp[t].target = "history"
       THEN /\ historyFile' = File(tmp[t].doc, tmp[t].n)
            /\ ratesFile' = ratesFile
            /\ logged' = logged \cup Range(ru[t].history_records)
            /\ pc' = [pc EXCEPT ![t] = "ru_save"]
            /\ UNCHANGED <<ru, gr, res>>
       ELSE /\ ratesFile' = File(tmp[t].doc, tmp[t].n)
            /\ historyFile' = historyFile
            /\ logged' = logged
            /\ Deliver(t, ru[t].ret, RuResult(ru[t], Ok))
    /\ UNCHANGED <<now, ticks, refreshes, api_key, stop_event, thread,
                   balance>>


(***************************************************************************)
(* Inputs of the commands                                                  *)
(***************************************************************************)
Sources == {NoSource, "coingecko", "exchangerate"}

\* a source name that run_update can be called with and no client has
UnknownSource == "binance"

Bases == {NoBase, "EUR", "GBP"}

Codes == {"BTC", "USD", "GBP"}

TickSteps == {RATES_TTL_SECONDS - 1, RATES_TTL_SECONDS}

\* show-rates top <n> [base]
TopArgs == 1..(Len(CRYPTO_ID_MAP) + 1)

ShowBases == {"USD", "EUR"}

(***************************************************************************)
(* Commands of the controlling thread                                      *)
(***************************************************************************)
\* update-rates (cli/interface.py 121-134): run_update(source, base)
UpdateRates(t, source, base) ==
    /\ pc[t] = "idle"
    /\ EnterRunUpdate(t, source, base, "top")
    /\ UNCHANGED <<now, ticks, api_key, ratesFile, historyFile, tmp, logged,
                   stop_event, thread,
                   balance>>

\* DatabaseManager.get_rate as the portfolio use cases call it
LookupRate(t, from, to) ==
    /\ pc[t] = "idle"
    /\ LET v == DbGetRate(ratesFile, from, to)
       IN  res' = [res EXCEPT ![t] =
              [NoRes EXCEPT !.op = "db_get_rate", !.a = from, !.b = to,
                            !.status = IF v.t = "exc" THEN v.exc ELSE "ok",
                            !.value = v, !.at = now,
                            !.pre_rates = ratesFile, !.pre_hist = historyFile]]
    /\ UNCHANGED <<now, ticks, refreshes, api_key, ratesFile, historyFile, tmp,
                   pc, ru, gr, logged, stop_event, thread,
                   balance>>

\* a variant of get_rate that goes to the cache without validating the codes
GetRateUnchecked(t, from, to) ==
    /\ pc[t] = "idle"
    /\ gr' = [gr EXCEPT ![t] =
          [NoGr EXCEPT !.from = from, !.to = to, !.at = now,
                       !.pre_rates = ratesFile, !.pre_hist = historyFile]]
    /\ pc' = [pc EXCEPT ![t] = "gr_load"]
    /\ res' = [res EXCEPT ![t] = NoRes]
    /\ UNCHANGED <<now, ticks, refreshes, api_key, ratesFile, historyFile, tmp,
                   ru, logged, stop_event, thread,
                   balance>>

\* RatesCommands.get_rate, lines 445-454: validation of the two codes; `loaded`
\* records whether the call has gone on to load_rates (line 459)
GetRate(t, from, to) ==
    /\ pc[t] = "idle"
    /\ LET g == [NoGr EXCEPT !.from = from, !.to = to, !.at = now,
                             !.pre_rates = ratesFile, !.pre_hist = historyFile]
       IN  IF ~Registered(from) \/ ~Registered(to)
           THEN /\ res' = [res EXCEPT ![t] =
                     GrResult(g, Instantiate("CurrencyNotFoundError",
                                 <<IF ~Registered(from) THEN from ELSE to>>),
                              PyNone)]
                /\ UNCHANGED <<pc, gr>>
           ELSE /\ gr' = [gr EXCEPT ![t] = g]
                /\ pc' = [pc EXCEPT ![t] = "gr_load"]
                /\ res' = [res EXCEPT ![t] = NoRes]
    /\ UNCHANGED <<now, ticks, refreshes, api_key, ratesFile, historyFile, tmp,
                   ru, logged, stop_event, thread,
                   balance>>

\* a variant that answers an empty snapshot with a refresh
GrLoadRefreshing(t) ==
    /\ pc[t] = "gr_load"
    /\ LET rates_data == load_rates(ratesFile)
       IN  IF rates_data.empty
           THEN EnterRunUpdate(t, NoSource, NoBase, "gr_reload")
           ELSE /\ gr' = [gr EXCEPT ![t].updated_at = rates_data.last_refresh,
                                    ![t].loaded = TRUE]
                /\ pc' = [pc EXCEPT ![t] = "gr_lookup"]
                /\ UNCHANGED <<res, ru, refreshes>>
    /\ UNCHANGED <<now, ticks, api_key, ratesFile, historyFile, tmp, logged,
                   stop_event, thread,
                   balance>>

\* lines 459-466: load the snapshot; an empty one raises
\* RateUnavailableError(<one message>)
GrLoad(t) ==
    /\ pc[t] = "gr_load"
    /\ LET rates_data == load_rates(ratesFile)
       IN  IF rates_data.empty
           THEN /\ res' = [res EXCEPT ![t] =
                     GrResult([gr[t] EXCEPT !.at = now, !.loaded = TRUE],
                              Instantiate("RateUnavailableError", <<"empty">>),
                              PyNone)]
                /\ gr' = [gr EXCEPT ![t] = NoGr]
                /\ pc' = [pc EXCEPT ![t] = "idle"]
           ELSE /\ gr' = [gr EXCEPT ![t].updated_at = rates_data.last_refresh,
                                    ![t].loaded = TRUE]
                /\ pc' = [pc EXCEPT ![t] = "gr_lookup"]
                /\ res' = res
    /\ UNCHANGED <<now, ticks, refreshes, api_key, ratesFile, historyFile, tmp,
                   ru, logged, stop_event, thread,
                   balance>>

\* lines 468-477, the read-only part of get_rate: the value returned on the
\* fresh path, the exception raised, or "stale"
GetRateCached(f, from, to, updated_at, at) ==
    LET pair_rate == DbGetRate(f, from, to)
        reversed == PyDiv(1, pair_rate)
    IN  IF pair_rate.t = "exc"
        THEN [status |-> pair_rate.exc, exc |-> <<>>, value |-> PyNone]
        ELSE IF reversed.t = "exc"
        THEN [status |-> reversed.exc, exc |-> <<>>, value |-> PyNone]
        ELSE IF at < updated_at + RATES_TTL_SECONDS
        THEN [status |-> "ok", exc |-> <<>>,
              value |-> [t |-> "rates", rate |-> pair_rate,
                         reversed |-> reversed]]
        ELSE [status |-> "stale", exc |-> <<>>, value |-> PyNone]

\* lines 468-480: look the pair up, derive the inverse, then either answer
\* from the cache or start the synchronous run_update()
GrLookup(t) ==
    /\ pc[t] = "gr_lookup"
    /\ LET out == GetRateCached(ratesFile, gr[t].from, gr[t].to,
                                gr[t].updated_at, now)
       IN  IF out.status = "stale"
           THEN /\ EnterRunUpdate(t, NoSource, NoBase, "gr_reload")
           ELSE /\ res' = [res EXCEPT ![t] =
                     GrResult([gr[t] EXCEPT !.at = now],
                              [status |-> out.status, exc |-> out.exc],
                              out.value)]
                /\ gr' = [gr EXCEPT ![t] = NoGr]
                /\ pc' = [pc EXCEPT ![t] = "idle"]
                /\ UNCHANGED <<ru, refreshes>>
    /\ UNCHANGED <<now, ticks, api_key, ratesFile, historyFile, tmp, logged,
                   stop_event, thread,
                   balance>>

\* lines 482-499: after the refresh, load and look up once more.  Every
\* snapshot run_update writes stores its entries as dicts, so GrLookup
\* raises at line 469 for each of them and control never comes here
\* (StaleBranchUnreached); the step is in no next-state relation.
GrReload(t) ==
    /\ pc[t] = "gr_reload"
    /\ LET new_rates_data == load_rates(ratesFile)
           new_rate == DbGetRate(ratesFile, gr[t].from, gr[t].to)
           positive == PyGtZero(new_rate)
           out == IF new_rates_data.empty
                  THEN Instantiate("RateUnavailableError", <<"empty">>)
                  ELSE IF new_rate.t = "exc"
                  THEN [status |-> new_rate.exc, exc |-> <<>>]
                  ELSE IF positive.t = "exc"
                  THEN [status |-> positive.exc, exc |-> <<>>]
                  ELSE Ok
       IN  /\ res' = [res EXCEPT ![t] =
                GrResult(gr[t], out,
                   IF out.status = "ok"
                   THEN [t |-> "rates", rate |-> new_rate,
                         reversed |-> IF positive.v THEN PyDiv(1, new_rate)
                                      ELSE PyNum(0, 1)]
                   ELSE PyNone)]
           /\ gr' = [gr EXCEPT ![t] = NoGr]
           /\ pc' = [pc EXCEPT ![t] = "idle"]
    /\ UNCHANGED <<now, ticks, refreshes, api_key, ratesFile, historyFile, tmp,
                   ru, logged, stop_event, thread,
                   balance>>

(***************************************************************************)
(* RatesCommands.show_rates(top=n, base) (core/usecases.py)                *)
(***************************************************************************)
\* a variant of the insertion that puts an element before its equals
InsertDescBeforeEquals(s, x) ==
    LET k == Cardinality({i \in 1..Len(s) : s[i][2] > x[2]})
    IN  SubSeq(s, 1, k) \o <<x>> \o SubSeq(s, k + 1, Len(s))

\* sorted(..., key=lambda x: x[1], reverse=True) is stable: an element goes
\* after every element whose rate is greater or equal
InsertDesc(s, x) ==
    LET k == Cardinality({i \in 1..Len(s) : s[i][2] >= x[2]})
    IN  SubSeq(s, 1, k) \o <<x>> \o SubSeq(s, k + 1, Len(s))

RECURSIVE SortedDesc(_)
SortedDesc(s) ==
    IF s = <<>> THEN <<>>
    ELSE InsertDesc(SortedDesc(SubSeq(s, 1, Len(s) - 1)), s[Len(s)])

\* a variant of the loop that passes over a code without an entry
RECURSIVE CollectPresentRates(_, _, _, _)
CollectPresentRates(rates, base, i, acc) ==
    IF i > Len(CRYPTO_ID_MAP) THEN [status |-> "ok", exc |-> <<>>, value |-> acc]
    ELSE LET code == CRYPTO_ID_MAP[i]
         IN  IF <<code, base>> \notin DOMAIN rates
             THEN CollectPresentRates(rates, base, i + 1, acc)
             ELSE CollectPresentRates(rates, base, i + 1,
                      Append(acc, <<code, rates[<<code, base>>].rate>>))

\* lines 559-581: the loop over CRYPTO_ID_MAP, from position i on; the
\* first code without an entry or with a zero rate ends it with an error
RECURSIVE CollectCryptoRates(_, _, _, _)
CollectCryptoRates(rates, base, i, acc) ==
    IF i > Len(CRYPTO_ID_MAP) THEN [status |-> "ok", exc |-> <<>>, value |-> acc]
    ELSE LET code == CRYPTO_ID_MAP[i]
         IN  IF <<code, base>> \notin DOMAIN rates
             THEN InstantiateKw("RateUnavailableError",
                      [k \in {"currency_from", "currency_to", "extra_info"} |->
                          IF k = "currency_from" THEN code ELSE base])
                  @@ [value |-> acc]
             ELSE IF rates[<<code, base>>].rate = 0
             THEN InstantiateKw("RateUnavailableError",
                      [k \in {"currency_from", "currency_to"} |->
                          IF k = "currency_from" THEN code ELSE base])
                  @@ [value |-> acc]
             ELSE CollectCryptoRates(rates, base, i + 1,
                      Append(acc, <<code, rates[<<code, base>>].rate>>))

\* a variant of lines 582-592 without the test of top against the length
SliceTopUnchecked(crypto_rates, top) ==
    [status |-> "ok", exc |-> <<>>,
     value |-> SubSeq(SortedDesc(crypto_rates), 1,
                      IF top < Len(crypto_rates) THEN top ELSE Len(crypto_rates))]

\* lines 582-592: top against the number of rates, then sort and slice
SliceTop(crypto_rates, top) ==
    IF top > Len(crypto_rates)
    THEN InstantiateKw("RateUnavailableError",
             [k \in {"extra_info"} |-> "count"]) @@ [value |-> <<>>]
    ELSE [status |-> "ok", exc |-> <<>>,
          value |-> SubSeq(SortedDesc(crypto_rates), 1, top)]

\* show_rates(None, top, base) over the snapshot load_rates returned: the
\* list of (code, rate) it prints, or the exception it raises
ShowRatesTop(rates_data, top, base) ==
    IF top = 0 THEN [status |-> "ValueError", exc |-> <<>>, value |-> <<>>]
    ELSE IF top < 0 THEN [status |-> "ValueError", exc |-> <<>>, value |-> <<>>]
    ELSE IF rates_data.empty
    THEN InstantiateKw("RateUnavailableError",
             [k \in {"extra_info"} |-> "empty"]) @@ [value |-> <<>>]
    ELSE LET got == CollectCryptoRates(rates_data.rates, base, 1, <<>>)
         IN  IF got.status # "ok" THEN [got EXCEPT !.value = <<>>]
             ELSE SliceTop(got.value, top)

\* a variant of show_rates that refreshes a stale snapshot first, the way
\* get_rate does
ShowRatesRefreshing(t, top, base) ==
    /\ pc[t] = "idle"
    /\ refreshes < MaxReadRefreshes + 1
    /\ load_rates(ratesFile).last_refresh + RATES_TTL_SECONDS <= now
    /\ EnterRunUpdate(t, NoSource, NoBase, "top")
    /\ UNCHANGED <<now, ticks, api_key, ratesFile, historyFile, tmp, logged,
                   stop_event, thread,
                   balance>>

\* the show-rates command (cli/interface.py 136-150) with `top`
ShowRates(t, top, base) ==
    /\ pc[t] = "idle"
    /\ LET out == ShowRatesTop(load_rates(ratesFile), top, base)
       IN  res' = [res EXCEPT ![t] =
              [NoRes EXCEPT !.op = "show_rates", !.a = base, !.top = top,
                            !.status = out.status, !.exc = out.exc,
                            !.value = out.value, !.at = now, !.loaded = TRUE,
                            !.pre_rates = ratesFile, !.pre_hist = historyFile]]
    /\ UNCHANGED <<now, ticks, refreshes, api_key, ratesFile, historyFile, tmp,
                   pc, ru, gr, logged, stop_event, thread,
                   balance>>

\* the clock advances
Tick(d) ==
    /\ ticks < MaxTicks
    /\ now' = now + d
    /\ ticks' = ticks + 1
    /\ UNCHANGED <<refreshes, api_key, ratesFile, historyFile, tmp, pc, ru, gr,
                   res, logged, stop_event, thread, balance>>

\* a variant of the loop that does not test the stop event
SchedTickDeaf(t) ==
    /\ pc[t] = "s_loop"
    /\ refreshes < MaxRefreshes
    /\ EnterRunUpdate(t, NoSource, NoBase, "s_tick")
    /\ UNCHANGED <<now, ticks, api_key, ratesFile, historyFile, tmp, logged,
                   stop_event, thread,
                   balance>>

(***************************************************************************)
(* RatesScheduler._run_scheduled_updater (parser_service/scheduler.py)     *)
(***************************************************************************)
\* lines 33-44: the loop test, then run_update(self.source) inside try
SchedTick(t) ==
    /\ pc[t] = "s_loop"
    /\ IF stop_event
       THEN /\ pc' = [pc EXCEPT ![t] = "s_exit"]
            /\ UNCHANGED <<refreshes, ru, gr, res>>
       ELSE /\ refreshes < MaxRefreshes
            /\ EnterRunUpdate(t, NoSource, NoBase, "s_tick")
    /\ UNCHANGED <<now, ticks, api_key, ratesFile, historyFile, tmp, logged,
                   stop_event, thread,
                   balance>>

\* a variant of the loop that tests the stop event only before its first
\* pass: after the wait it goes straight into the next run_update
SchedWaitThenTick(t) ==
    /\ pc[t] = "s_wait"
    /\ refreshes < MaxRefreshes
    /\ EnterRunUpdate(t, NoSource, NoBase, "s_tick")
    /\ UNCHANGED <<now, ticks, api_key, ratesFile, historyFile, tmp, logged,
                   stop_event, thread,
                   balance>>

\* lines 45-48: the wait between two ticks ends, by its timeout or because
\* the event is set
SchedWait(t) ==
    /\ pc[t] = "s_wait"
    /\ pc' = [pc EXCEPT ![t] = "s_loop"]
    /\ UNCHANGED <<now, ticks, refreshes, api_key, ratesFile, historyFile, tmp,
                   ru, gr, res, logged, stop_event, thread,
                   balance>>

\* a worker slot holds a thread that has been started and has not returned
Alive(w) == pc[w] \notin {"s_none", "s_exit"}

\* what start / stop leave for their caller
SchedResult(op, outcome) ==
    [NoRes EXCEPT !.op = op, !.status = outcome, !.at = now,
                  !.pre_rates = ratesFile, !.pre_hist = historyFile]

\* a variant of start without the is_alive test
StartUnguarded(t) ==
    /\ pc[t] = "idle"
    /\ LET slot == IF ~Alive("sched") THEN "sched" ELSE "sched2"
       IN  /\ ~Alive(slot)
           /\ stop_event' = FALSE
           /\ thread' = slot
           /\ pc' = [pc EXCEPT ![slot] = "s_loop"]
           /\ res' = [res EXCEPT ![t] = SchedResult("start", "spawned"),
                                 ![slot] = NoRes]
    /\ UNCHANGED <<now, ticks, refreshes, api_key, ratesFile, historyFile, tmp,
                   ru, gr, logged,
                   balance>>

\* RatesScheduler.start, lines 54-64
Start(t) ==
    /\ pc[t] = "idle"
    /\ IF thread # NoThread /\ Alive(thread)
       THEN /\ res' = [res EXCEPT ![t] = SchedResult("start", "noop")]
            /\ UNCHANGED <<pc, stop_event, thread>>
       ELSE LET slot == IF ~Alive("sched") THEN "sched" ELSE "sched2"
            IN  /\ ~Alive(slot)
                /\ stop_event' = FALSE
                /\ thread' = slot
                /\ pc' = [pc EXCEPT ![slot] = "s_loop"]
                /\ res' = [res EXCEPT ![t] = SchedResult("start", "spawned"),
                                      ![slot] = NoRes]
    /\ UNCHANGED <<now, ticks, refreshes, api_key, ratesFile, historyFile, tmp,
                   ru, gr, logged,
                   balance>>

\* RatesScheduler.stop, lines 70-72: set the event, then join if there is a
\* thread
Stop(t) ==
    /\ pc[t] = "idle"
    /\ stop_event' = TRUE
    /\ IF thread = NoThread
       THEN /\ res' = [res EXCEPT ![t] = SchedResult("stop", "no thread")]
            /\ pc' = pc
       ELSE /\ res' = [res EXCEPT ![t] = NoRes]
            /\ pc' = [pc EXCEPT ![t] = "stop_join"]
    /\ UNCHANGED <<now, ticks, refreshes, api_key, ratesFile, historyFile, tmp,
                   ru, gr, logged, thread,
                   balance>>

\* a variant of the join that has no timeout
StopJoinBlocking(t) ==
    /\ pc[t] = "stop_join"
    /\ ~Alive(thread)
    /\ pc' = [pc EXCEPT ![t] = "idle"]
    /\ res' = [res EXCEPT ![t] = SchedResult("stop", "joined")]
    /\ UNCHANGED <<now, ticks, refreshes, api_key, ratesFile, historyFile, tmp,
                   ru, gr, logged, stop_event, thread,
                   balance>>

\* lines 73-74: join(timeout=5) returns when the worker has returned, or
\* when the five seconds are over, wherever the worker is then
StopJoin(t) ==
    /\ pc[t] = "stop_join"
    /\ pc' = [pc EXCEPT ![t] = "idle"]
    /\ res' = [res EXCEPT ![t] =
          SchedResult("stop", IF Alive(thread) THEN "timeout" ELSE "joined")]
    /\ UNCHANGED <<now, ticks, refreshes, api_key, ratesFile, historyFile, tmp,
                   ru, gr, logged, stop_event, thread,
                   balance>>

\* the process is killed and started again: the files stay as they are on
\* disk (a temporary file is created with delete=False), the threads start
\* over, run() starts the scheduler
StartPc ==
    [t \in Threads |->
        IF t = "main" THEN "idle" ELSE IF t = "sched" THEN "s_loop" ELSE "s_none"]

Crash ==
    /\ \E t \in Threads : pc[t] \notin {"idle", "s_none", "s_loop", "s_wait"}
    /\ pc' = StartPc
    /\ ru' = [t \in Threads |-> NoRu]
    /\ gr' = [t \in Threads |-> NoGr]
    /\ res' = [t \in Threads |-> NoRes]
    /\ stop_event' = FALSE
    /\ thread' = "sched"
    /\ UNCHANGED <<now, ticks, refreshes, api_key, ratesFile, historyFile, tmp,
                   logged,
                   balance>>

(***************************************************************************)
(* The wallet (core/models.py)                                             *)
(***************************************************************************)
\* the largest finite balance followed
MaxBalance == 3

\* amounts handed to the wallet: ints, floats, the three special floats and
\* a value that is no number
Amounts ==
    {PyInt(0 - 1), PyInt(0), PyInt(1), PyFloat(2), NaN, Inf, NegInf, PyNone}

\* balances a wallet is created with
StartBalances == {PyFloat(0), PyFloat(1)}

Followed(b) == b.c = "fin" => b.v <= MaxBalance

\* what a finished wallet call leaves for its caller
WalletResult(op, amount, outcome, value) ==
    [op |-> op, a |-> amount, status |-> outcome.status, exc |-> outcome.exc,
     value |-> value, pre_balance |-> balance]

WalletReturns(op, amount, new_balance, value) ==
    /\ Followed(new_balance)
    /\ balance' = new_balance
    /\ res' = [res EXCEPT !["main"] = WalletResult(op, amount, Ok, value)]

WalletRaises(op, amount, outcome) ==
    /\ balance' = balance
    /\ res' = [res EXCEPT !["main"] = WalletResult(op, amount, outcome, PyNone)]

\* Wallet.deposit
Deposit(amount) ==
    /\ pc["main"] = "idle"
    /\ IF ~IsNumber(amount)
       THEN WalletRaises("deposit", amount, Instantiate("TypeError", <<>>))
       ELSE IF NumLe(amount, PyInt(0))
       THEN WalletRaises("deposit", amount, Instantiate("ValueError", <<>>))
       ELSE WalletReturns("deposit", amount,
                          NumAdd(balance, ToFloat(amount)), PyNone)
    /\ UNCHANGED <<now, ticks, refreshes, api_key, ratesFile, historyFile, tmp,
                   pc, ru, gr, logged, stop_event, thread>>

\* Wallet.withdraw
Withdraw(amount) ==
    /\ pc["main"] = "idle"
    /\ IF ~IsNumber(amount)
       THEN WalletRaises("withdraw", amount, Instantiate("TypeError", <<>>))
       ELSE IF NumLe(amount, PyInt(0))
       THEN WalletRaises("withdraw", amount, Instantiate("ValueError", <<>>))
       ELSE IF NumGt(amount, balance)
       THEN WalletRaises("withdraw", amount,
                         InstantiateKw("InsufficientFundsError",
                                       [available |-> balance,
                                        code |-> BASE_CURRENCY,
                                        required |-> amount]))
       ELSE WalletReturns("withdraw", amount,
                          NumSub(balance, ToFloat(amount)),
                          NumSub(balance, ToFloat(amount)))
    /\ UNCHANGED <<now, ticks, refreshes, api_key, ratesFile, historyFile, tmp,
                   pc, ru, gr, logged, stop_event, thread>>

\* Wallet.balance = amount
SetBalance(amount) ==
    /\ pc["main"] = "idle"
    /\ IF ~IsNumber(amount)
       THEN WalletRaises("balance", amount, Instantiate("TypeError", <<>>))
       ELSE IF NumLt(amount, PyInt(0))
       THEN WalletRaises("balance", amount, Instantiate("ValueError", <<>>))
       ELSE WalletReturns("balance", amount, ToFloat(amount), PyNone)
    /\ UNCHANGED <<now, ticks, refreshes, api_key, ratesFile, historyFile, tmp,
                   pc, ru, gr, logged, stop_event, thread>>

(***************************************************************************)
(* Specifications                                                          *)
(***************************************************************************)
InitCommon ==
    /\ now = 0
    /\ ticks = 0
    /\ refreshes = 0
    /\ api_key \in BOOLEAN
    /\ ratesFile = Absent
    /\ historyFile = Absent
    /\ tmp = [t \in Threads |-> NoTmp]
    /\ ru = [t \in Threads |-> NoRu]
    /\ gr = [t \in Threads |-> NoGr]
    /\ res = [t \in Threads |-> NoRes]
    /\ logged = {}
    /\ stop_event = FALSE
    /\ balance = PyFloat(0)

\* the commands one after another, the scheduler not started
Init ==
    /\ InitCommon
    /\ thread = NoThread
    /\ pc = [t \in Threads |-> IF t = "main" THEN "idle" ELSE "s_none"]

Next ==
    \/ \E s \in Sources, b \in Bases :
          refreshes < MaxRefreshes /\ UpdateRates("main", s, b)
    \/ RuFetch("main")
    \/ HaRead("main")
    \/ DumpChunk("main")
    \/ Replace("main")
    \/ RuSave("main")
    \/ \E d \in TickSteps : Tick(d)

Spec == Init /\ [][Next]_vars

\* the scheduler worker and on-demand refreshes of the controlling thread,
\* interleaved step by step, with the process killed at any point
InitConc ==
    /\ InitCommon
    /\ thread = "sched"
    /\ pc = StartPc

NextConc ==
    \/ \E s \in Sources :
          refreshes < MaxRefreshes /\ UpdateRates("main", s, NoBase)
    \/ SchedTick("sched")
    \/ SchedWait("sched")
    \/ \E t \in Threads : RuFetch(t)
    \/ \E t \in Threads : HaRead(t)
    \/ \E t \in Threads : DumpChunk(t)
    \/ \E t \in Threads : Replace(t)
    \/ \E t \in Threads : RuSave(t)
    \/ Crash

SpecConc == InitConc /\ [][NextConc]_vars

\* the read commands over the snapshots a refresh leaves
NextRead ==
    \/ \E s \in Sources, b \in Bases :
          refreshes < MaxReadRefreshes /\ UpdateRates("main", s, b)
    \/ RuFetch("main")
    \/ HaRead("main")
    \/ DumpChunk("main")
    \/ Replace("main")
    \/ RuSave("main")
    \/ \E from \in Codes, to \in Codes : GetRate("main", from, to)
    \/ GrLoad("main")
    \/ GrLookup("main")
    \/ \E from \in Codes, to \in Codes : LookupRate("main", from, to)
    \/ \E d \in TickSteps : Tick(d)

SpecRead == Init /\ [][NextRead]_vars

\* show-rates over the snapshots a refresh leaves
NextShow ==
    \/ \E s \in Sources, b \in Bases :
          refreshes < MaxReadRefreshes /\ UpdateRates("main", s, b)
    \/ RuFetch("main")
    \/ HaRead("main")
    \/ DumpChunk("main")
    \/ Replace("main")
    \/ RuSave("main")
    \/ \E n \in TopArgs, b \in ShowBases : ShowRates("main", n, b)
    \/ Tick(RATES_TTL_SECONDS)

SpecShow == Init /\ [][NextShow]_vars

\* get-rate alone over the snapshots a refresh leaves, the clock advancing
\* by whole TTLs
NextGetRate ==
    \/ \E s \in Sources, b \in Bases :
          refreshes < MaxReadRefreshes /\ UpdateRates("main", s, b)
    \/ RuFetch("main")
    \/ HaRead("main")
    \/ DumpChunk("main")
    \/ Replace("main")
    \/ RuSave("main")
    \/ \E from \in Codes, to \in Codes : GetRate("main", from, to)
    \/ GrLoad("main")
    \/ GrLookup("main")
    \/ Tick(RATES_TTL_SECONDS)

SpecGetRate == Init /\ [][NextGetRate]_vars

\* start and stop of the scheduler from the controlling thread while the
\* worker runs its ticks
NextSched ==
    \/ Start("main")
    \/ Stop("main")
    \/ StopJoin("main")
    \/ \E w \in Workers : SchedTick(w)
    \/ \E w \in Workers : SchedWait(w)
    \/ \E w \in Workers : RuFetch(w)
    \/ \E w \in Workers : HaRead(w)
    \/ \E w \in Workers : DumpChunk(w)
    \/ \E w \in Workers : WriteFails(w)
    \/ \E w \in Workers : Replace(w)
    \/ \E w \in Workers : RuSave(w)
    \/ Crash

SpecSched == InitConc /\ [][NextSched]_vars

\* where every thread stands: each step of a thread changes it
position == <<pc, [t \in Threads |-> tmp[t].n]>>

\* the steps of one worker thread
WorkerStep(w) ==
    \/ SchedTick(w)
    \/ SchedWait(w)
    \/ RuFetch(w)
    \/ HaRead(w)
    \/ DumpChunk(w)
    \/ WriteFails(w)
    \/ Replace(w)
    \/ RuSave(w)

\* the same, with every started worker thread scheduled again and again:
\* a request ends by its timeout, a write returns or raises, the wait
\* ends by its timeout or by the event
SpecSchedLive ==
    /\ InitConc
    /\ [][NextSched]_vars
    /\ \A w \in Workers : WF_position(WorkerStep(w))

\* the history file as a first refresh can find it: missing, of size 0, or
\* holding text that is not JSON
StartHistories == {Absent, File(<<>>, 0), File(<<>>, 1)}

\* refresh cycles of the controlling thread within one clock second, over
\* storage whose writes can fail
InitStore ==
    /\ now = 0
    /\ ticks = 0
    /\ refreshes = 0
    /\ api_key \in BOOLEAN
    /\ ratesFile = Absent
    /\ historyFile \in StartHistories
    /\ tmp = [t \in Threads |-> NoTmp]
    /\ ru = [t \in Threads |-> NoRu]
    /\ gr = [t \in Threads |-> NoGr]
    /\ res = [t \in Threads |-> NoRes]
    /\ logged = {}
    /\ stop_event = FALSE
    /\ balance = PyFloat(0)
    /\ thread = NoThread
    /\ pc = [t \in Threads |-> IF t = "main" THEN "idle" ELSE "s_none"]

NextStore ==
    \/ \E s \in Sources, b \in Bases :
          refreshes < MaxRefreshes /\ UpdateRates("main", s, b)
    \/ RuFetch("main")
    \/ HaRead("main")
    \/ DumpChunk("main")
    \/ WriteFails("main")
    \/ Replace("main")
    \/ RuSave("main")

SpecStore == InitStore /\ [][NextStore]_vars

\* time passes between two commands of the controlling thread
Pause(d) ==
    /\ pc["main"] = "idle"
    /\ Tick(d)

\* refresh cycles of the controlling thread one after another, at different
\* times, over storage whose writes can fail; run_update is also called
\* with a source name that no client has
NextSeq ==
    \/ \E s \in Sources \cup {UnknownSource}, b \in Bases :
          refreshes < MaxRefreshes /\ UpdateRates("main", s, b)
    \/ RuFetch("main")
    \/ HaRead("main")
    \/ DumpChunk("main")
    \/ WriteFails("main")
    \/ Replace("main")
    \/ RuSave("main")
    \/ Pause(RATES_TTL_SECONDS)

SpecSeq == Init /\ [][NextSeq]_vars

\* the scheduler worker refreshing while the controlling thread refreshes
\* and reads, step by step, the clock advancing at any point
NextRace ==
    \/ refreshes < MaxRefreshes /\ UpdateRates("main", "coingecko", NoBase)
    \/ GetRate("main", "BTC", BASE_CURRENCY)
    \/ GrLoad("main")
    \/ GrLookup("main")
    \/ SchedTick("sched")
    \/ SchedWait("sched")
    \/ \E t \in Threads : RuFetch(t)
    \/ \E t \in Threads : HaRead(t)
    \/ \E t \in Threads : DumpChunk(t)
    \/ \E t \in Threads : Replace(t)
    \/ \E t \in Threads : RuSave(t)
    \/ Tick(RATES_TTL_SECONDS)

SpecRace == InitConc /\ [][NextRace]_vars

\* one wallet, created with a balance that is not negative, and the calls
\* made on it one after another
InitWallet ==
    /\ now = 0
    /\ ticks = 0
    /\ refreshes = 0
    /\ api_key \in BOOLEAN
    /\ ratesFile = Absent
    /\ historyFile = Absent
    /\ tmp = [t \in Threads |-> NoTmp]
    /\ ru = [t \in Threads |-> NoRu]
    /\ gr = [t \in Threads |-> NoGr]
    /\ res = [t \in Threads |-> NoRes]
    /\ logged = {}
    /\ stop_event = FALSE
    /\ thread = NoThread
    /\ pc = [t \in Threads |-> IF t = "main" THEN "idle" ELSE "s_none"]
    /\ balance \in StartBalances

NextWallet ==
    \/ \E amount \in Amounts : Deposit(amount)
    \/ \E amount \in Amounts : Withdraw(amount)
    \/ \E amount \in Amounts : SetBalance(amount)

SpecWallet == InitWallet /\ [][NextWallet]_vars


(***************************************************************************)
(* Properties                                                              *)
(***************************************************************************)
RatesOf(f) == load_rates(f).rates

HistoryOf(f) == IF f.kind = "file" THEN f.doc ELSE <<>>

AtRest(t) == pc[t] \in {"idle", "s_none", "s_loop", "s_wait", "s_exit"}

\* the last call of the controlling thread, finished and not yet followed
\* by another
Last == res["main"]

\* no get_rate gets past line 469 into its stale branch
StaleBranchUnreached ==
    \A t \in Threads : pc[t] # "gr_reload" /\ (pc[t] = "ru_fetch" => ru[t].ret # "gr_reload")

\* C1: after a successful run_update restricted to one source, every pair
\* that was in the snapshot before the call and was not fetched in this
\* cycle is still in the snapshot, with the same rate, timestamp and source.
C1_MergeKeepsUnfetched ==
    (/\ Last.op = "run_update"
     /\ Last.status = "ok"
     /\ Last.a # NoSource)
    => \A p \in DOMAIN RatesOf(Last.pre_rates) \ DOMAIN Last.fetched :
          /\ p \in DOMAIN RatesOf(ratesFile)
          /\ RatesOf(ratesFile)[p] = RatesOf(Last.pre_rates)[p]

\* C2: in a run_update that queries several providers, of which one has
\* failed and another has succeeded, every selected provider has been
\* attempted, no error reaches the caller, and the pairs of the successful
\* provider are in the cache and their records in the history.
C2_PartialFailure ==
    (/\ Last.op = "run_update"
     /\ Len(Selected(Last.a)) > 1
     /\ Last.failed # {}
     /\ Last.attempted \ Last.failed # {})
    => /\ Last.attempted = Range(Selected(Last.a))
       /\ Last.status = "ok"
       /\ \A p \in DOMAIN Last.fetched :
             /\ p \in DOMAIN RatesOf(ratesFile)
             /\ RatesOf(ratesFile)[p] = Last.fetched[p]
       /\ Range(Last.records) \subseteq Range(HistoryOf(historyFile))

\* C3: when every selected provider fails in a run_update, the cache and the
\* history are as they were before the call, and the error raised is an
\* ApiRequestError whose reason names each failed provider.
C3_TotalFailure ==
    (/\ Last.op = "run_update"
     /\ Last.failed # {}
     /\ Last.failed = Range(Selected(Last.a)))
    => /\ ratesFile = Last.pre_rates
       /\ historyFile = Last.pre_hist
       /\ Last.status = "ApiRequestError"
       /\ Last.exc = <<Last.failed>>

\* C4: every step, a kill of the process at any point of _atomic_write
\* included, leaves rates.json and exchange_rates.json each either as it
\* was or holding the complete document a writer has just renamed over it;
\* neither file is ever a partial document.
Renamed(name, f) ==
    \E t \in Threads :
        /\ pc[t] = "w_replace"
        /\ tmp[t].target = name
        /\ f = File(tmp[t].doc, DumpChunks)

C4_AtomicWrite ==
    [][/\ Complete(ratesFile') /\ Complete(historyFile')
       /\ (ratesFile' = ratesFile \/ Renamed("rates", ratesFile'))
       /\ (historyFile' = historyFile \/ Renamed("history", historyFile'))]_vars

\* a kill in the middle of json.dump over an existing snapshot: the partial
\* temporary file is left behind, the threads have started over
C4_Witness ==
    \E t \in Threads :
        /\ pc = StartPc
        /\ tmp[t].target = "rates"
        /\ tmp[t].n > 0 /\ tmp[t].n < DumpChunks
        /\ ratesFile.kind = "file"

\* C5: no two run_update executions are at once between reading a store
\* and persisting it.
InSection(t) ==
    /\ pc[t] \in {"w_dump", "w_replace"}
    /\ tmp[t].target = "history"

C5_SerializedRefresh == ~(InSection("main") /\ InSection("sched"))

\* C6: once the scheduler's refresh and the on-demand refresh have both
\* completed, every record whose append has returned is in the history.
C6_NoLostAppend ==
    (/\ AtRest("main") /\ AtRest("sched")
     /\ Last.op = "run_update" /\ Last.status = "ok"
     /\ res["sched"].op = "run_update" /\ res["sched"].status = "ok")
    => logged \subseteq Range(HistoryOf(historyFile))

\* C7: for a pair present in the cache, get_rate answers with the cached
\* rate and no refresh while now - last_refresh < TTL, and refreshes once
\* now - last_refresh >= TTL.
C7_TtlBoundary ==
    (/\ Last.op = "get_rate"
     /\ <<Last.a, Last.b>> \in DOMAIN RatesOf(Last.pre_rates))
    => IF Last.at - load_rates(Last.pre_rates).last_refresh < RATES_TTL_SECONDS
       THEN /\ Last.status = "ok"
            /\ Last.refreshes = 0
            /\ Last.value.rate =
                  PyNum(RatesOf(Last.pre_rates)[<<Last.a, Last.b>>].rate, 1)
       ELSE Last.refreshes = 1

\* C8: for every pair A_B of a fresh cache, get_rate(A, B) and
\* get_rate(B, A) both succeed with no provider call, and the two rates
\* multiply to 1.
Product(x, y) == PyNum(x.num * y.num, x.den * y.den)

IsOne(x) == x.num = x.den /\ x.den # 0

C8_Reciprocity ==
    (/\ Last.op = "get_rate"
     /\ \/ <<Last.a, Last.b>> \in DOMAIN RatesOf(ratesFile)
        \/ <<Last.b, Last.a>> \in DOMAIN RatesOf(ratesFile)
     /\ Last.at = now
     /\ now - load_rates(ratesFile).last_refresh < RATES_TTL_SECONDS)
    => LET back == GetRateCached(ratesFile, Last.b, Last.a,
                                 load_rates(ratesFile).last_refresh, now)
       IN  /\ Last.status = "ok" /\ Last.refreshes = 0
           /\ back.status = "ok"
           /\ IsOne(Product(Last.value.rate, back.value.rate))

\* C9: DatabaseManager.get_rate(from, to) returns the stored rate of
\* FROM_TO when that key exists, otherwise 1 / the stored rate of TO_FROM
\* when that key exists, otherwise None.
C9_LookupOrder ==
    Last.op = "db_get_rate"
    => LET rates == RatesOf(Last.pre_rates)
       IN  IF <<Last.a, Last.b>> \in DOMAIN rates
           THEN Last.value = PyNum(rates[<<Last.a, Last.b>>].rate, 1)
           ELSE IF <<Last.b, Last.a>> \in DOMAIN rates
           THEN Last.value = PyNum(1, rates[<<Last.b, Last.a>>].rate)
           ELSE Last.value = PyNone

\* C10: get_rate(from, to) with two registered codes whose pair is in the
\* cache in neither direction fails with RateUnavailableError(from, to).
C10_RateUnavailable ==
    (/\ Last.op = "get_rate"
     /\ Registered(Last.a) /\ Registered(Last.b)
     /\ <<Last.a, Last.b>> \notin DOMAIN RatesOf(ratesFile)
     /\ <<Last.b, Last.a>> \notin DOMAIN RatesOf(ratesFile))
    => /\ Last.status = "RateUnavailableError"
       /\ Last.exc = <<Last.a, Last.b>>

\* C11: get_rate(from, to) with a code that is not in the currency registry
\* fails with CurrencyNotFoundError naming the first such code, without
\* having loaded the cache and without a refresh, and leaves rates.json and
\* exchange_rates.json as they were.
C11_CurrencyNotFound ==
    (/\ Last.op = "get_rate"
     /\ ~Registered(Last.a) \/ ~Registered(Last.b))
    => /\ Last.status = "CurrencyNotFoundError"
       /\ Last.exc = <<IF ~Registered(Last.a) THEN Last.a ELSE Last.b>>
       /\ ~Last.loaded
       /\ Last.refreshes = 0
       /\ ratesFile = Last.pre_rates
       /\ historyFile = Last.pre_hist

\* get_rate with an unregistered target code over a snapshot that holds the
\* source code's pair
C11_Witness ==
    /\ Last.op = "get_rate"
    /\ Registered(Last.a) /\ ~Registered(Last.b)
    /\ Last.status = "CurrencyNotFoundError"
    /\ <<Last.a, BASE_CURRENCY>> \in DOMAIN RatesOf(ratesFile)


\* C12: show_rates(top=n, base) over a snapshot that holds every crypto pair
\* against base (each with a rate the loop accepts) returns n entries of the
\* crypto universe, each before the next and before every entry left out in
\* the order "greater rate first, equal rates by code ascending"; over
\* BTC 59337.21, ETH 3720.00, SOL 150.00 and n = 2 it returns BTC, ETH.
CodesAscending == <<"BTC", "ETH", "SOL">>

CodeOrder(c) == CHOOSE i \in 1..Len(CodesAscending) : CodesAscending[i] = c

RanksBefore(x, y) ==
    \/ x[2] > y[2]
    \/ x[2] = y[2] /\ CodeOrder(x[1]) < CodeOrder(y[1])

AllCached(rates, base) ==
    \A c \in Range(CRYPTO_ID_MAP) :
        <<c, base>> \in DOMAIN rates /\ rates[<<c, base>>].rate # 0

CryptoRates(rates, base) ==
    {<<c, rates[<<c, base>>].rate>> : c \in Range(CRYPTO_ID_MAP)}

ExampleRates ==
    {<<"BTC", 5933721>>, <<"ETH", 372000>>, <<"SOL", 15000>>}

C12_TopNOrdering ==
    (/\ Last.op = "show_rates"
     /\ Last.top \in 1..Len(CRYPTO_ID_MAP)
     /\ AllCached(RatesOf(Last.pre_rates), Last.a))
    => LET v == Last.value
           all == CryptoRates(RatesOf(Last.pre_rates), Last.a)
       IN  /\ Last.status = "ok"
           /\ Len(v) = Last.top
           /\ Range(v) \subseteq all
           /\ \A i \in 1..Len(v), j \in 1..Len(v) :
                 i < j => RanksBefore(v[i], v[j])
           /\ \A x \in all \ Range(v) :
                 \A i \in 1..Len(v) : RanksBefore(v[i], x)
           /\ (all = ExampleRates /\ Last.top = 2)
              => v = <<(<<"BTC", 5933721>>), (<<"ETH", 372000>>)>>

\* top 1 over a snapshot in which BTC and ETH have the same, greatest rate
C12_Witness ==
    /\ Last.op = "show_rates" /\ Last.top = 1 /\ Last.status = "ok"
    /\ AllCached(RatesOf(Last.pre_rates), Last.a)
    /\ RatesOf(Last.pre_rates)[<<"BTC", Last.a>>].rate =
          RatesOf(Last.pre_rates)[<<"ETH", Last.a>>].rate
    /\ Last.value[1][1] = "BTC"

\* C13: show_rates(top=n, base) fails whenever the pair against base of some
\* currency of the crypto universe is not in the snapshot: in every call
\* made, and for every n and every non-empty set of crypto pairs taken out
\* of the current snapshot, however many pairs remain.
Without(rates_data, drop, base) ==
    [rates_data EXCEPT !.rates =
        [p \in DOMAIN rates_data.rates \ {<<c, base>> : c \in drop} |->
            rates_data.rates[p]]]

C13_NoPartialResult ==
    /\ (/\ Last.op = "show_rates"
        /\ \E c \in Range(CRYPTO_ID_MAP) :
              <<c, Last.a>> \notin DOMAIN RatesOf(Last.pre_rates))
       => Last.status # "ok"
    /\ \A n \in TopArgs, b \in ShowBases :
         \A drop \in SUBSET Range(CRYPTO_ID_MAP) \ {{}} :
            ShowRatesTop(Without(load_rates(ratesFile), drop, b), n, b).status
               # "ok"

\* top 1 fails over a snapshot that holds crypto pairs against another base
C13_Witness ==
    /\ Last.op = "show_rates" /\ Last.top = 1 /\ Last.status # "ok"
    /\ Last.a = BASE_CURRENCY
    /\ \A c \in Range(CRYPTO_ID_MAP) : <<c, "EUR">> \in DOMAIN RatesOf(Last.pre_rates)
    /\ \A c \in Range(CRYPTO_ID_MAP) :
          <<c, Last.a>> \notin DOMAIN RatesOf(Last.pre_rates)

\* C14: show_rates(top=n, base) fails when n is greater than the size of the
\* crypto universe, and returns exactly n entries when 1 <= n <= that size
\* and every crypto pair against base is in the snapshot (each with a rate
\* the loop accepts).
C14_TopBound ==
    Last.op = "show_rates"
    => /\ Last.top > Len(CRYPTO_ID_MAP) => Last.status # "ok"
       /\ (/\ Last.top \in 1..Len(CRYPTO_ID_MAP)
           /\ AllCached(RatesOf(Last.pre_rates), Last.a))
          => Last.status = "ok" /\ Len(Last.value) = Last.top

\* top 4 over a snapshot that holds all three crypto pairs
C14_Witness ==
    /\ Last.op = "show_rates" /\ Last.top = Len(CRYPTO_ID_MAP) + 1
    /\ AllCached(RatesOf(Last.pre_rates), Last.a)
    /\ Last.status # "ok"

\* C15: a show_rates step starts no run_update and writes nothing: the
\* refresh count, the position of every thread, rates.json,
\* exchange_rates.json and the temporary files are as before, whether the
\* call succeeds or fails and however old the snapshot is.
C15_ReadOnly ==
    [][(\E n \in TopArgs, b \in ShowBases : ShowRates("main", n, b))
       => /\ refreshes' = refreshes
          /\ pc' = pc /\ ru' = ru
          /\ ratesFile' = ratesFile /\ historyFile' = historyFile
          /\ tmp' = tmp /\ logged' = logged]_vars

\* show_rates has answered from a snapshot older than the TTL
C15_Witness ==
    /\ Last.op = "show_rates" /\ Last.status = "ok"
    /\ Last.at >= load_rates(Last.pre_rates).last_refresh + RATES_TTL_SECONDS
    /\ ratesFile = Last.pre_rates /\ refreshes = 1


\* C19: every entry of the cache snapshot and every record of the history
\* has rate > 0: a zero, negative or missing rate in a provider's response
\* is never stored.
C19_PositiveRates ==
    /\ \A p \in DOMAIN RatesOf(ratesFile) : RatesOf(ratesFile)[p].rate > 0
    /\ \A i \in 1..Len(HistoryOf(historyFile)) :
          HistoryOf(historyFile)[i].rate > 0

\* C20: a get_rate or show_rates(top=n >= 1) call that fails raises
\* CurrencyNotFoundError, RateUnavailableError, ApiRequestError or a storage
\* error (OSError), never another exception.
DomainErrors ==
    {"CurrencyNotFoundError", "RateUnavailableError", "ApiRequestError",
     "OSError"}

C20_TypedFailures ==
    (/\ Last.op \in {"get_rate", "show_rates"}
     /\ Last.op = "show_rates" => Last.top >= 1
     /\ Last.status # "ok")
    => Last.status \in DomainErrors


\* C16: at most one scheduler worker is alive, and it is the one
\* RatesScheduler._thread refers to; start on a scheduler whose worker is
\* alive changes neither the workers, nor _thread, nor the stop event.
AliveWorkers == {w \in Workers : Alive(w)}

AtMostOneWorker ==
    /\ Cardinality(AliveWorkers) <= 1
    /\ AliveWorkers \subseteq {thread}

C16_AtMostOneWorker ==
    [][/\ AtMostOneWorker'
       /\ (Start("main") /\ thread # NoThread /\ Alive(thread))
          => /\ pc' = pc /\ thread' = thread /\ stop_event' = stop_event
             /\ ru' = ru /\ tmp' = tmp]_vars

\* start has been called after a stop whose join timed out: the worker of
\* before is still in its refresh cycle, and start did nothing
C16_Witness ==
    /\ Last.op = "start" /\ Last.status = "noop"
    /\ stop_event
    /\ pc[thread] \in {"ru_fetch", "ha_read", "w_dump", "w_replace", "ru_save"}

\* C17: a worker leaves its loop only at the loop test with the stop event
\* set; when a tick's run_update ends, with whatever exception, the worker
\* is at the wait before the next tick, and from the loop test with the
\* stop event unset it enters the next run_update.
C17_LoopSurvivesErrors ==
    [][\A w \in Workers :
          /\ (Alive(w) /\ pc'[w] = "s_exit")
             => pc[w] = "s_loop" /\ stop_event
          /\ (res'[w] # res[w] /\ res'[w].op = "run_update")
             => pc'[w] = "s_wait"
          /\ (pc[w] = "s_loop" /\ ~stop_event /\ pc'[w] # pc[w])
             => pc'[w] \in {"ru_fetch", "s_wait"}]_vars

\* after a tick that ended in a storage error the worker is back at the
\* loop test, alive, the stop event unset and a further tick ahead
C17_Witness ==
    \E w \in Workers :
        /\ pc[w] = "s_loop" /\ ~stop_event
        /\ res[w].op = "run_update" /\ res[w].status = "OSError"
        /\ refreshes < MaxRefreshes

\* C18: stop can always return from its join, wherever the worker is in its
\* refresh cycle, and rates.json and exchange_rates.json are each absent or
\* a complete document in every state.
C18_StopDuringRefresh ==
    /\ pc["main"] = "stop_join" => ENABLED StopJoin("main")
    /\ Complete(ratesFile) /\ Complete(historyFile)

\* stop has returned on the timeout while the worker is in the middle of
\* writing the temporary file of a new snapshot over an existing one
C18_Witness ==
    /\ Last.op = "stop" /\ Last.status = "timeout"
    /\ pc[thread] = "w_dump"
    /\ tmp[thread].target = "rates"
    /\ tmp[thread].n > 0 /\ tmp[thread].n < DumpChunks
    /\ ratesFile.kind = "file"


\* the history file ends with the records of the last call
EndsWith(h, recs) ==
    /\ Len(h) >= Len(recs)
    /\ SubSeq(h, Len(h) - Len(recs) + 1, Len(h)) = recs

\* C21: a run_update whose write of the history or of the cache fails does
\* not report success: it ends with the OSError of the write, so whenever
\* run_update returns normally with pairs fetched, the history file ends
\* with this cycle's records and the snapshot holds this cycle's pairs.
C21_StorageFailureNotSwallowed ==
    (/\ Last.op = "run_update"
     /\ Last.status = "ok"
     /\ Last.fetched # EmptyMap)
    => /\ EndsWith(HistoryOf(historyFile), Last.records)
       /\ Complete(ratesFile)
       /\ ratesFile.kind = "file"
       /\ ratesFile.doc[1].rates = Last.fetched

\* the write of the cache failed after the history was written: the call
\* ended with the error and the snapshot is not the fetched one
C21_Witness ==
    /\ Last.op = "run_update"
    /\ Last.status = "OSError"
    /\ Last.fetched # EmptyMap
    /\ EndsWith(HistoryOf(historyFile), Last.records)
    /\ RatesOf(ratesFile) # Last.fetched

\* a finished get_rate for a pair the snapshot held, asked when the
\* snapshot was at least TTL seconds old
StaleGetRate ==
    /\ Last.op = "get_rate"
    /\ <<Last.a, Last.b>> \in DOMAIN RatesOf(Last.pre_rates)
    /\ Last.at - load_rates(Last.pre_rates).last_refresh >= RATES_TTL_SECONDS

\* C22: a stale get_rate(from, to) runs its synchronous run_update with
\* base = to.
C22_RefreshBaseIsTo ==
    StaleGetRate => Last.refreshes = 1 /\ Last.rbase = Last.b

\* C23: a stale get_rate runs run_update exactly once and looks the pair up
\* once more: a rate it returns is the one of the snapshot after the
\* refresh, and a failed refresh ends the call with that error.
C23_OneRefreshOneLookup ==
    StaleGetRate =>
       /\ Last.refreshes = 1
       /\ \/ /\ Last.status = "ok"
             /\ <<Last.a, Last.b>> \in DOMAIN RatesOf(ratesFile)
             /\ Last.value.rate =
                   PyNum(RatesOf(ratesFile)[<<Last.a, Last.b>>].rate, 1)
          \/ /\ Last.status # "ok"
             /\ Last.value = PyNone

\* the providers named by the source argument of a call
Named(source) == IF source = NoSource THEN Range(Clients) ELSE {source}

\* C24: run_update without a source goes through every configured provider
\* and run_update with a source through the named one only.  While the loop
\* runs, the providers tried and the ones still to be tried are together
\* exactly the named ones; a call with a source has tried that provider and
\* no other when it ends, and a call without a source that no fetch aborted
\* has tried all of them.
C24_ProviderSelection ==
    /\ pc["main"] = "ru_fetch"
          => ru["main"].attempted \cup Range(ru["main"].todo)
                = Named(ru["main"].source)
    /\ (Last.op = "run_update" /\ Last.status # "CurrencyNotFoundError")
          => /\ Last.attempted \subseteq Named(Last.a)
             /\ Last.a # NoSource => Last.attempted = {Last.a}
             /\ Last.failed = {} => Last.attempted = Named(Last.a)

\* a call naming the fiat provider has ended well having tried it alone,
\* after an earlier call that fetched from the crypto provider
C24_Witness ==
    /\ Last.op = "run_update"
    /\ Last.status = "ok"
    /\ Last.a = "exchangerate"
    /\ Last.attempted = {"exchangerate"}
    /\ \E i \in 1..Len(HistoryOf(Last.pre_hist)) :
          HistoryOf(Last.pre_hist)[i].source = "CoinGecko"

IsPrefix(s, h) == Len(s) <= Len(h) /\ SubSeq(h, 1, Len(s)) = s

\* C25: when refreshes run one after another, a successful run_update
\* leaves the history equal to what it was before the call followed by one
\* new record for each pair fetched in the cycle, and whatever the outcome
\* of a call the records that were there before it are still there, in
\* place and unchanged.
C25_SequentialAppend ==
    Last.op = "run_update" =>
       /\ IsPrefix(HistoryOf(Last.pre_hist), HistoryOf(historyFile))
       /\ (Last.status = "ok" /\ Last.fetched # EmptyMap) =>
             /\ HistoryOf(historyFile)
                   = HistoryOf(Last.pre_hist) \o Last.records
             /\ Len(Last.records) = Cardinality(DOMAIN Last.fetched)
             /\ \A p \in DOMAIN Last.fetched :
                   \E i \in 1..Len(Last.records) :
                      /\ Last.records[i].from_currency = p[1]
                      /\ Last.records[i].to_currency = p[2]

\* a second successful refresh has appended its records to those of the
\* first
C25_Witness ==
    /\ Last.op = "run_update"
    /\ Last.status = "ok"
    /\ Last.records # <<>>
    /\ HistoryOf(Last.pre_hist) # <<>>
    /\ Len(HistoryOf(historyFile))
          = Len(HistoryOf(Last.pre_hist)) + Len(Last.records)

\* C26: append over a history file that is absent or does not parse goes
\* through as over an empty array: a run_update whose fetches all succeeded
\* and whose writes did not fail ends well, and the history file then holds
\* exactly the records of the cycle.
C26_CorruptHistoryAsEmpty ==
    (/\ Last.op = "run_update"
     /\ Last.attempted # {}
     /\ Last.failed = {}
     /\ Last.status # "OSError"
     /\ Last.pre_hist \in StartHistories)
    => /\ Last.status = "ok"
       /\ historyFile = File(Last.records, DumpChunks)

\* C27: no two records of the history file have the same id, refreshes of
\* the same pair within one clock second included.
C27_UniqueRecordIds ==
    \A i, j \in 1..Len(HistoryOf(historyFile)) :
       i # j => HistoryOf(historyFile)[i].id # HistoryOf(historyFile)[j].id

\* C28: without an API key the fiat client raises its ApiRequestError
\* whatever the endpoint would have answered, and sends no request; a
\* run_update that reaches the fiat provider then ends with an error, the
\* provider counted as failed, and no run_update whose source names the fiat
\* provider, alone or with the others, ends well.
C28_MissingKeyFailsFast ==
    ~api_key =>
       /\ \A reply \in ExchangeRateReplies(BASE_CURRENCY) :
             ExchangeRateFetch(reply, BASE_CURRENCY, now)
                = FetchFailed("ExchangeRate-API: no API key")
       /\ Requests("exchangerate") = <<>>
       /\ (Last.op = "run_update" /\ "exchangerate" \in Last.attempted)
             => /\ "exchangerate" \in Last.failed
                /\ "exchangerate" \notin Range(Last.requests)
       /\ (Last.op = "run_update" /\ "exchangerate" \in Named(Last.a))
             => Last.status # "ok"

\* a run_update over both providers without a key: the crypto provider was
\* asked and answered, the fiat provider failed with no request sent
C28_Witness ==
    /\ ~api_key
    /\ Last.op = "run_update"
    /\ Last.a = NoSource
    /\ Last.attempted = {"coingecko", "exchangerate"}
    /\ Last.failed = {"exchangerate"}
    /\ Last.requests = <<"coingecko">>
    /\ Last.status # "ok"

\* C29: a fetch ends in one of two ways, a quote for every code of the
\* provider's universe or an ApiRequestError.  In a finished run_update
\* every provider whose fetch returned has given a pair for each code of its
\* universe, and the fetch that failed raised ApiRequestError.
C29_AllOrProviderError ==
    Last.op = "run_update" =>
       /\ \A name \in Last.attempted \ Last.failed :
             \A i \in 1..Len(Universe(name)) :
                <<Universe(name)[i], Last.b>> \in DOMAIN Last.fetched
       /\ Last.failed # {} => Last.fetch_exc = "ApiRequestError"

NoDup(s) == \A i, j \in 1..Len(s) : i # j => s[i] # s[j]

\* C30: nothing is tried twice.  A run_update sends at most one request to
\* each provider it selected, also after a failure; a worker enters
\* run_update only from the test of its loop, once per pass, and when the
\* call is over, well or not, it goes to the wait between two ticks.
C30_NoRetries ==
    [][\A w \in Workers :
          /\ NoDup(ru'[w].requests)
          /\ NoDup(res'[w].requests)
          /\ ru'[w] # NoRu => Range(ru'[w].requests) \subseteq Named(ru'[w].source)
          /\ (pc[w] = "s_loop" /\ ~stop_event /\ pc'[w] # pc[w])
                => refreshes' = refreshes + 1
          /\ (ru[w] = NoRu /\ ru'[w] # NoRu) => pc[w] = "s_loop"
          /\ (ru[w] # NoRu /\ ru'[w] = NoRu /\ res'[w].op = "run_update")
                => /\ pc'[w] = "s_wait"
                   /\ refreshes' = refreshes]_vars

\* the tick of a worker has ended in an error after the one request to the
\* crypto provider failed, and the worker waits for its next tick
C30_Witness ==
    \E w \in Workers :
        /\ pc[w] = "s_wait"
        /\ res[w].op = "run_update"
        /\ res[w].status # "ok"
        /\ res[w].failed = {"coingecko"}
        /\ res[w].requests = <<"coingecko">>

\* C31: once stop has set the event, every worker has returned at some
\* later point unless start has cleared the event before; and a worker that
\* leaves the test of its loop with the event set leaves it for its exit,
\* not for a run_update.
C31_StopLeadsToExit ==
    /\ \A w \in Workers : stop_event ~> (~stop_event \/ ~Alive(w))
    /\ [][\A w \in Workers :
             (pc[w] = "s_loop" /\ stop_event /\ pc'[w] # pc[w])
                => pc'[w] = "s_exit" /\ refreshes' = refreshes]_vars

\* stop came while the worker was inside its refresh and its join timed
\* out; the refresh has ended since and the worker has returned
C31_Witness ==
    /\ stop_event
    /\ Last.op = "stop"
    /\ Last.status = "timeout"
    /\ pc[thread] = "s_exit"
    /\ res[thread].op = "run_update"

\* C32: a worker that is in the wait between two ticks when the event is
\* set comes out of the wait and returns, unless start has cleared the event
\* before; on its way from the wait to its exit it enters no run_update.
C32_StopInterruptsWait ==
    /\ \A w \in Workers :
          (pc[w] = "s_wait" /\ stop_event)
             ~> (~stop_event \/ pc[w] = "s_exit")
    /\ [][\A w \in Workers :
             (pc[w] \in {"s_wait", "s_loop"} /\ stop_event /\ pc'[w] # pc[w])
                => /\ pc'[w] = IF pc[w] = "s_wait" THEN "s_loop" ELSE "s_exit"
                   /\ ru'[w] = NoRu
                   /\ refreshes' = refreshes]_vars

\* stop has set the event and waits in its join while the worker, one tick
\* behind it, is in the wait before its next tick
C32_Witness ==
    /\ stop_event
    /\ pc["main"] = "stop_join"
    /\ pc[thread] = "s_wait"
    /\ res[thread].op = "run_update"
    /\ refreshes < MaxRefreshes

\* C33: with refreshes one after another, every entry of the snapshot in
\* rates.json has a record in exchange_rates.json whose id is the entry's
\* pair with the entry's updated_at and whose rate is the entry's rate.
C33_CacheAgreesWithHistory ==
    \A p \in DOMAIN RatesOf(ratesFile) :
       \E i \in 1..Len(HistoryOf(historyFile)) :
          /\ HistoryOf(historyFile)[i].id
                = <<p, RatesOf(ratesFile)[p].updated_at>>
          /\ HistoryOf(historyFile)[i].rate = RatesOf(ratesFile)[p].rate

\* a later refresh has replaced the snapshot of an earlier one: the history
\* holds the records of both, the snapshot the entries of the later
C33_Witness ==
    /\ Last.op = "run_update"
    /\ Last.status = "ok"
    /\ RatesOf(Last.pre_rates) # EmptyMap
    /\ RatesOf(ratesFile) # EmptyMap
    /\ \A p \in DOMAIN RatesOf(ratesFile) :
          RatesOf(ratesFile)[p].updated_at = RATES_TTL_SECONDS
    /\ Len(HistoryOf(historyFile)) > Cardinality(DOMAIN RatesOf(ratesFile))

\* the last_refresh of the snapshot in rates.json, -1 while there is none
LastRefresh == load_rates(ratesFile).last_refresh

\* C34: the last_refresh stored in rates.json never decreases, however the
\* refreshes of the scheduler and of the controlling thread interleave.
C34_LastRefreshMonotonic == [][LastRefresh' >= LastRefresh]_vars

C36_RestartWorks ==
    Last.op = "start" => (\E w \in Workers : Alive(w)) /\ ~stop_event

\* C37: a run_update whose source names no configured provider, with a base
\* that is registered, returns normally, has tried no provider and sent no
\* request, and leaves rates.json and exchange_rates.json as they were.
C37_UnknownSourceNoEffect ==
    (/\ Last.op = "run_update"
     /\ Last.a = UnknownSource
     /\ Registered(Last.b))
    => /\ Last.status = "ok"
       /\ Last.attempted = {}
       /\ Last.requests = <<>>
       /\ Last.fetched = EmptyMap
       /\ ratesFile = Last.pre_rates
       /\ historyFile = Last.pre_hist

\* the call came after a refresh had written a snapshot, at a later time:
\* the snapshot and its last_refresh are still those of that refresh
C37_Witness ==
    /\ Last.op = "run_update"
    /\ Last.a = UnknownSource
    /\ Last.status = "ok"
    /\ RatesOf(ratesFile) # EmptyMap
    /\ HistoryOf(historyFile) # <<>>
    /\ load_rates(ratesFile).last_refresh < now

\* C38: a get_rate for two registered codes that finds rates.json missing,
\* unparseable or empty ends with an error, has run no run_update, and
\* leaves both files as they were; while it runs no run_update is under way
\* on its behalf.
C38_EmptyCacheNoRefresh ==
    /\ (/\ Last.op = "get_rate"
        /\ Registered(Last.a) /\ Registered(Last.b)
        /\ load_rates(Last.pre_rates).empty)
       => /\ Last.status # "ok"
          /\ Last.value = PyNone
          /\ Last.refreshes = 0
          /\ ratesFile = Last.pre_rates
          /\ historyFile = Last.pre_hist
    /\ (ru["main"].ret = "gr_reload")
       => ~load_rates(ru["main"].pre_rates).empty

\* get_rate has found no snapshot after a refresh that failed and wrote
\* nothing, and has ended with an error
C38_Witness ==
    /\ Last.op = "get_rate"
    /\ Last.loaded
    /\ Last.pre_rates = Absent
    /\ Last.status # "ok"
    /\ Last.refreshes = 0
    /\ refreshes = MaxReadRefreshes

\* C39: a wallet created with a balance >= 0 has a balance >= 0 after every
\* deposit, withdraw and balance assignment; a withdraw of more than the
\* balance raises InsufficientFundsError, a deposit or withdraw of an amount
\* <= 0 raises ValueError, and both leave the balance as it was.
C39_BalanceNonNegative ==
    /\ NumGe(balance, PyInt(0))
    /\ (/\ Last.op = "withdraw"
        /\ IsNumber(Last.a)
        /\ NumGt(Last.a, Last.pre_balance))
       => /\ Last.status = "InsufficientFundsError"
          /\ balance = Last.pre_balance
    /\ (/\ Last.op \in {"deposit", "withdraw"}
        /\ IsNumber(Last.a)
        /\ NumLe(Last.a, PyInt(0)))
       => /\ Last.status = "ValueError"
          /\ balance = Last.pre_balance

====
